---- MODULE Spec2Model ----
(***************************************************************************)
(* Model of app.py, the Streamlit "Solar Mapping & Recommendation System". *)
(*                                                                         *)
(* Numbers.  The program computes in floating point; the model computes    *)
(* exactly, on decimal grids, so every quantity is an integer count of a   *)
(* unit:                                                                   *)
(*   lengths            0.05 m        (10 m = 200, 1.1 m = 22, 0.4 m = 8)  *)
(*   roof area          0.0025 m2     (the product of two lengths)         *)
(*   panel wattage      1 W                                                *)
(*   system capacity    0.01 kW       (the program rounds it to 2 places)  *)
(*   peak sun hours     0.5 kWh/m2/day                                     *)
(*   performance ratio  0.05          shading factor  0.05                 *)
(*   monthly energy     1/80000 kWh   (= 0.01 * 0.5 * 0.05 * 0.05)         *)
(*   annual energy      0.1 kWh       (the program rounds it to 1 place)   *)
(*   tariff             0.5 rupee/kWh,  costs and savings  1 rupee         *)
(*   payback            0.1 year      (the program rounds it to 1 place)   *)
(*   latitude           0.1 degree,   tilt  1 degree                       *)
(*   suitability score  0.1           (the program rounds it to 1 place)   *)
(* Binary rounding error of IEEE doubles is outside the model.             *)
(*                                                                         *)
(* A Python dict is a sequence of <<key, value>> pairs in insertion order. *)
(* A Python exception is a value of an "err" field.                        *)
(***************************************************************************)
EXTENDS Integers, Sequences, FiniteSets, TLC

VARIABLES
    call,        \* the last direct call of a function or script section: [fn, args, ret]
    nasa_cache,  \* st.cache_data of fetch_nasa_power_monthly: location -> cached return
    ui,          \* the sidebar widgets' values of the current script run
    pc,          \* the script run's position
    layout,      \* count, rows, cols, system_kw of the run (lines 233-235)
    forecast     \* the Monthly Forecast section's results of the run (lines 278-296)

vars == <<call, nasa_cache, ui, pc, layout, forecast>>

---------------------------------------------------------------------------
(* Python built-ins *)

\* max(a, b)
PyMax(a, b) == IF a >= b THEN a ELSE b

\* min(a, b)
PyMin(a, b) == IF a <= b THEN a ELSE b

\* abs(a)
PyAbs(a) == IF a < 0 THEN -a ELSE a

\* np.clip(x, lo, hi)
Clip(x, lo, hi) == PyMax(lo, PyMin(x, hi))

\* a // b on floats: the floor of the quotient; ZeroDivisionError when b == 0
PyFloorDiv(a, b) ==
    IF b = 0 THEN [err |-> "ZeroDivisionError", val |-> 0]
    ELSE IF b > 0 THEN [err |-> "none", val |-> a \div b]
    ELSE [err |-> "none", val |-> (-a) \div (-b)]

\* round(num/den, k) for den > 0, as an integer count of 10^-k: the nearest
\* one, a tie going to the even one (Python 3 rounds half to even)
RoundHalfEven(num, den) ==
    LET q == num \div den
        r == num % den
    IN  IF 2 * r < den THEN q
        ELSE IF 2 * r > den THEN q + 1
        ELSE IF q % 2 = 0 THEN q ELSE q + 1

---------------------------------------------------------------------------
(* compute_panels_fit, lines 81-106 *)

\* EffectivePanel without the Landscape swap
EffectivePanelNoSwap(panel_w, panel_h, orientation) == [pw |-> panel_w, ph |-> panel_h]

\* lines 87-90: 'Landscape' swaps the panel's dimensions
EffectivePanel(panel_w, panel_h, orientation) ==
    IF orientation = "Landscape" THEN [pw |-> panel_h, ph |-> panel_w]
    ELSE [pw |-> panel_w, ph |-> panel_h]

\* Avail with the sign of the edge clearance slipped
AvailAddsClearance(surface, clearance) == PyMax(surface + 2 * clearance, 0)

\* lines 93-94: the dimension left after the edge clearance on both sides
Avail(surface, clearance) == PyMax(surface - 2 * clearance, 0)

\* count_axis dividing by the panel alone, the gap between panels forgotten
CountAxisNoGap(avail, p, clearance) ==
    IF p <= 0 THEN [err |-> "none", val |-> 0]
    ELSE LET q == PyFloorDiv(avail + clearance, p)
         IN  IF q.err # "none" THEN q
             ELSE [err |-> "none", val |-> PyMax(q.val, 0)]

\* lines 99-101: count_axis (clearance is the enclosing function's argument)
CountAxis(avail, p, clearance) ==
    IF p <= 0 THEN [err |-> "none", val |-> 0]
    ELSE LET q == PyFloorDiv(avail + clearance, p + clearance)
         IN  IF q.err # "none" THEN q
             ELSE [err |-> "none", val |-> PyMax(q.val, 0)]

\* FitResult with count = rows + cols
FitResultSum(cols, rows) ==
    IF cols.err # "none" THEN [err |-> cols.err, count |-> 0, rows |-> 0, cols |-> 0]
    ELSE IF rows.err # "none" THEN [err |-> rows.err, count |-> 0, rows |-> 0, cols |-> 0]
    ELSE [err |-> "none", count |-> rows.val + cols.val,
          rows |-> rows.val, cols |-> cols.val]

\* lines 103-106: count, rows, cols from the two axes
FitResult(cols, rows) ==
    IF cols.err # "none" THEN [err |-> cols.err, count |-> 0, rows |-> 0, cols |-> 0]
    ELSE IF rows.err # "none" THEN [err |-> rows.err, count |-> 0, rows |-> 0, cols |-> 0]
    ELSE [err |-> "none", count |-> rows.val * cols.val,
          rows |-> rows.val, cols |-> cols.val]

ComputePanelsFit(roof_w, roof_h, panel_w, panel_h, clearance, orientation) ==
    LET p == EffectivePanel(panel_w, panel_h, orientation)
        avail_w == Avail(roof_w, clearance)
        avail_h == Avail(roof_h, clearance)
    IN  FitResult(CountAxis(avail_w, p.pw, clearance),
                  CountAxis(avail_h, p.ph, clearance))

\* lines 255-262: where the layout preview draws panel number i of an axis
PanelOffset(i, p, clearance) == clearance + i * (p + clearance)

---------------------------------------------------------------------------
(* Python values that may be a dict, None, or a name bound to nothing *)

PyDict(items) == [kind |-> "dict", items |-> items]

PyNone == [kind |-> "None", items |-> <<>>]

\* a global name no statement of the module has assigned
Unbound == [kind |-> "unbound", items |-> <<>>]

\* list(d.keys())
DictKeys(items) == [i \in DOMAIN items |-> items[i][1]]

\* list(d.values())
DictValues(items) == [i \in DOMAIN items |-> items[i][2]]

\* k in d
HasKey(items, k) == \E i \in DOMAIN items : items[i][1] = k

\* d[k], for a key d holds
Lookup(items, k) == items[CHOOSE i \in DOMAIN items : items[i][1] = k][2]

RECURSIVE SumSeq(_)
\* np.sum / sum of a list; 0 for the empty list
SumSeq(s) == IF s = <<>> THEN 0 ELSE Head(s) + SumSeq(Tail(s))

---------------------------------------------------------------------------
(* days_in_months, lines 51-54 *)

\* line 51: the default of the year parameter
DefaultYear == 2024

DaysInMonths(year) ==
    << <<"Jan", 31>>,
       <<"Feb", IF year % 4 = 0 /\ (year % 100 # 0 \/ year % 400 = 0) THEN 29 ELSE 28>>,
       <<"Mar", 31>>, <<"Apr", 30>>, <<"May", 31>>, <<"Jun", 30>>,
       <<"Jul", 31>>, <<"Aug", 31>>, <<"Sep", 30>>, <<"Oct", 31>>,
       <<"Nov", 30>>, <<"Dec", 31>> >>

---------------------------------------------------------------------------
(* The solar-resource providers, lines 21-49 and 196-227 *)

\* lines 42-45: month_map
MonthMap ==
    << <<"01", "Jan">>, <<"02", "Feb">>, <<"03", "Mar">>, <<"04", "Apr">>,
       <<"05", "May">>, <<"06", "Jun">>, <<"07", "Jul">>, <<"08", "Aug">>,
       <<"09", "Sep">>, <<"10", "Oct">>, <<"11", "Nov">>, <<"12", "Dec">> >>

\* str(i+1) of lines 219 and 226, for i+1 in 1..12
DecimalStr == <<"1", "2", "3", "4", "5", "6", "7", "8", "9", "10", "11", "12">>

\* line 226: the fallback peak sun hours, 5.0
FallbackPsh == 10

\* What one HTTP GET can come to.  kind: "timeout" (requests.get raises: a
\* timeout, no connection), "http_error" (a 4xx/5xx status whose JSON body
\* holds no data), "no_data" (status 200, the body is not JSON or lacks the
\* path the code indexes), "ok" (data is what the code indexes: for NASA the
\* ALLSKY_SFC_SW_DWN object as key/value pairs, for PVGIS the E_d list).
Response(kind, data) == [kind |-> kind, data |-> data]

\* lines 28-49: the body of fetch_nasa_power_monthly, on the GET's outcome
FetchNasaPowerMonthlyBody(resp) ==
    IF resp.kind # "ok" THEN PyNone                        \* except Exception: return None
    ELSE IF \E i \in DOMAIN resp.data : ~HasKey(MonthMap, resp.data[i][1])
         THEN PyNone                                       \* month_map[k]: KeyError
    ELSE PyDict([i \in DOMAIN resp.data |->
                    <<Lookup(MonthMap, resp.data[i][1]), resp.data[i][2]>>])

\* np.mean(list(values)) as the fraction sum/len; 0/0 is numpy's nan
Mean(values) == [num |-> SumSeq(values), den |-> Len(values)]

\* line 219: the dict comprehension over enumerate(months); val/30.0 is exact
\* for the monthly values the model draws (multiples of 30 units)
PvgisDaily(months) == [i \in DOMAIN months |-> <<DecimalStr[i], months[i] \div 30>>]

\* line 226: the fallback mapping
FallbackMonthly == [i \in 1..12 |-> <<DecimalStr[i], FallbackPsh>>]

\* lines 196-227: fetch_solar_ghi, on the outcomes of its two GETs
FetchSolarGhi(nasa, pvgis) ==
    IF nasa.kind = "ok"
    THEN [ghi_avg |-> Mean(DictValues(nasa.data)),
          ghi_monthly |-> PyDict(nasa.data), source |-> "NASA POWER"]
    ELSE IF pvgis.kind = "ok"
    THEN [ghi_avg |-> Mean(DictValues(PvgisDaily(pvgis.data))),
          ghi_monthly |-> PyDict(PvgisDaily(pvgis.data)), source |-> "PVGIS"]
    ELSE [ghi_avg |-> [num |-> FallbackPsh, den |-> 1],
          ghi_monthly |-> PyDict(FallbackMonthly), source |-> "Fallback Avg"]

---------------------------------------------------------------------------
(* monthly_energy_kwh, lines 108-112, and the forecast section, 278-296 *)

MonthlyEnergyKwh(system_kw, monthly_psh, days, performance_ratio, shading_factor) ==
    system_kw * monthly_psh * days * performance_ratio * (20 - shading_factor)

\* the monthly energy units in one 0.1 kWh
EnergyPerTenthKwh == 80000 \div 10

\* line 293: annual_energy = round(float(np.sum(monthly_energy)), 1)
AnnualEnergy(monthly_energy) == RoundHalfEven(SumSeq(monthly_energy), EnergyPerTenthKwh)

\* line 294: install_cost = round(system_kw * cost_per_kw, 0)
InstallCost(system_kw, cost_per_kw) == RoundHalfEven(system_kw * cost_per_kw, 100)

\* line 295: annual_savings = round(annual_energy * tariff, 0)
AnnualSavings(annual_energy, tariff) == RoundHalfEven(annual_energy * tariff, 20)

\* PaybackYears with the denominator floored at 0 instead of 1
PaybackYearsFloorZero(install_cost, annual_savings) ==
    LET d == PyMax(annual_savings, 0)
    IN  IF d = 0 THEN [err |-> "ZeroDivisionError", val |-> 0]
        ELSE [err |-> "none", val |-> RoundHalfEven(install_cost * 10, d)]

\* line 296: payback_years = round(install_cost / max(annual_savings, 1), 1);
\* a float division by 0 raises ZeroDivisionError
PaybackYears(install_cost, annual_savings) ==
    LET d == PyMax(annual_savings, 1)
    IN  IF d = 0 THEN [err |-> "ZeroDivisionError", val |-> 0]
        ELSE [err |-> "none", val |-> RoundHalfEven(install_cost * 10, d)]

ForecastError(e) ==
    [err |-> e, months |-> <<>>, monthly_energy |-> <<>>, annual_energy |-> 0,
     install_cost |-> 0, annual_savings |-> 0, payback_years |-> 0]

\* lines 278-296, on the values of the section's free names
ForecastSection(system_kw, monthly_psh, performance_ratio, shading_factor, cost_per_kw, tariff) ==
    LET dim == DaysInMonths(DefaultYear)
        items == monthly_psh.items
    IN  IF monthly_psh.kind = "unbound" THEN ForecastError("NameError")     \* line 279
        ELSE IF monthly_psh.kind = "None" THEN ForecastError("AttributeError") \* line 279
        ELSE IF \E i \in DOMAIN items : ~HasKey(dim, items[i][1])
             THEN ForecastError("KeyError")                                 \* line 283: dim[m]
        ELSE LET monthly_energy ==
                     [i \in DOMAIN items |->
                         MonthlyEnergyKwh(system_kw, items[i][2], Lookup(dim, items[i][1]),
                                          performance_ratio, shading_factor)]
                 annual_energy == AnnualEnergy(monthly_energy)
                 install_cost == InstallCost(system_kw, cost_per_kw)
                 annual_savings == AnnualSavings(annual_energy, tariff)
                 payback == PaybackYears(install_cost, annual_savings)
             IN  [err |-> payback.err, months |-> DictKeys(items),
                  monthly_energy |-> monthly_energy, annual_energy |-> annual_energy,
                  install_cost |-> install_cost, annual_savings |-> annual_savings,
                  payback_years |-> payback.val]

---------------------------------------------------------------------------
(* suitability_score, lines 58-79 *)

\* the entries the mean is taken over, 1 when there is no mapping
ScoreEntries(monthly_psh_dict) ==
    IF monthly_psh_dict.items = <<>> THEN 1 ELSE Len(monthly_psh_dict.items)

\* lines 60-65, as a count of 1/(2n) for n entries
ResourceScore(monthly_psh_dict) ==
    LET n == ScoreEntries(monthly_psh_dict)
        s == SumSeq(DictValues(monthly_psh_dict.items))
    IN  IF monthly_psh_dict.kind = "None" \/ monthly_psh_dict.items = <<>>
        THEN 50 * 2 * n
        ELSE Clip(20 * 2 * n + (s - 3 * 2 * n) * 18, 20 * 2 * n, 95 * 2 * n)

\* line 68, as a count of 1/800: (area - 10) * 1.5 is (a - 4000) * 3 / 800
AreaScore(roof_area_m2) == 30 * 800 + Clip((roof_area_m2 - 10 * 400) * 3, 0, 65 * 800)

\* ShadeScore without the clip
ShadeScoreUnclipped(shading_factor) == 100 - shading_factor * 5

\* line 71: shading_factor * 100 is 5 per unit of 0.05
ShadeScore(shading_factor) == Clip(100 - shading_factor * 5, 10, 100)

\* lines 74-75, as a count of 1/100: ideal * 2.2 is 22 per 0.1 degree
TiltScore(tilt_deg, lat) ==
    LET ideal == PyAbs(PyAbs(lat) - tilt_deg * 10)
    IN  Clip(100 * 100 - ideal * 22, 40 * 100, 100 * 100)

\* lines 77-79: the weighted sum over 100 * 800 * n, rounded to one decimal
SuitabilityScore(roof_area_m2, monthly_psh_dict, shading_factor, tilt_deg, lat) ==
    LET n == ScoreEntries(monthly_psh_dict)
        final == 35 * ResourceScore(monthly_psh_dict) * 400
                 + 25 * AreaScore(roof_area_m2) * n
                 + 20 * ShadeScore(shading_factor) * 800 * n
                 + 20 * TiltScore(tilt_deg, lat) * 8 * n
    IN  RoundHalfEven(final, 100 * 80 * n)

---------------------------------------------------------------------------
(* What the environment can answer to the two GETs *)

\* twelve monthly values, 4.0 to 6.5 kWh/m2/day
PshProfile == <<8, 9, 11, 12, 13, 10, 8, 8, 9, 10, 9, 8>>

\* the ALLSKY_SFC_SW_DWN object keyed as line 41 expects it, its first n months
NasaMonths(values, n) == [i \in 1..n |-> <<MonthMap[i][1], values[i]>>]

\* the same with the annual mean as a thirteenth entry
NasaWithAnnual(values) == NasaMonths(values, 12) \o << <<"13", 10>> >>

NasaResponses ==
    { Response("timeout", <<>>), Response("http_error", <<>>), Response("no_data", <<>>),
      Response("ok", NasaMonths(PshProfile, 12)),
      Response("ok", NasaMonths([i \in 1..12 |-> 0], 12)),
      Response("ok", NasaMonths(PshProfile, 3)),
      Response("ok", <<>>),
      Response("ok", NasaWithAnnual(PshProfile)) }

\* the E_d list: monthly sums in 0.5 kWh/m2, 150 kWh/m2 a month is 5.0 a day
PvgisResponses ==
    { Response("timeout", <<>>), Response("no_data", <<>>),
      Response("ok", [i \in 1..12 |-> 30 * PshProfile[i]]),
      Response("ok", [i \in 1..3 |-> 300]),
      Response("ok", <<>>) }

\* every mapping fetch_solar_ghi can return as ghi_monthly
SolarGhiMappings ==
    { FetchSolarGhi(n, p).ghi_monthly : n \in NasaResponses, p \in PvgisResponses }

\* every value fetch_nasa_power_monthly can return
NasaPowerMappings == { FetchNasaPowerMonthlyBody(r) : r \in NasaResponses }

\* lat, lon of line 149-150 and of a point clicked on the map, in 0.1 degree
Locations == { <<213, 816>>, <<-338, 1512>> }

---------------------------------------------------------------------------
(* The state outside a specification's own part *)

NoCall == [fn |-> "none", args |-> <<>>, ret |-> <<>>]

ColdCache == [loc \in Locations |-> [hit |-> FALSE, value |-> PyNone]]

NoLayout == [err |-> "none", count |-> 0, rows |-> 0, cols |-> 0, system_kw |-> 0]

\* the widgets' default values, lines 157-174
DefaultUi ==
    [roof_w |-> 200, roof_h |-> 160, clearance |-> 8, panel_w |-> 22, panel_h |-> 35,
     panel_watt |-> 400, orientation |-> "Portrait", performance_ratio |-> 15,
     shading_factor |-> 2, cost_per_kw |-> 55000, tariff |-> 16]

\* the records that differ from args in at most one field, drawn from dom
OneChange(args, dom) ==
    UNION { {[args EXCEPT ![f] = v] : v \in dom[f]} : f \in DOMAIN args }

---------------------------------------------------------------------------
(* FnSpec: direct calls of the pure functions and of the forecast section *)

MaxRoof == 6
MaxPanel == 3
MaxClearance == 2

FitDom ==
    [roof_w |-> (-1..MaxRoof) \cup {200}, roof_h |-> (-1..MaxRoof) \cup {160},
     panel_w |-> (-1..MaxPanel) \cup {22}, panel_h |-> (-1..MaxPanel) \cup {35},
     clearance |-> (0..MaxClearance) \cup {8},
     orientation |-> {"Portrait", "Landscape"}]

\* the call of line 234 with the widgets' defaults
FitDefault ==
    [roof_w |-> 200, roof_h |-> 160, panel_w |-> 22, panel_h |-> 35, clearance |-> 8,
     orientation |-> "Portrait"]

CallComputePanelsFit ==
    /\ \E a \in (IF call.fn = "compute_panels_fit"
                 THEN OneChange(call.args, FitDom) ELSE {FitDefault}) :
          call' = [fn |-> "compute_panels_fit", args |-> a,
                   ret |-> ComputePanelsFit(a.roof_w, a.roof_h, a.panel_w, a.panel_h,
                                            a.clearance, a.orientation)]
    /\ UNCHANGED <<nasa_cache, ui, pc, layout, forecast>>

ScoreDom ==
    [roof_area_m2 |-> {-400, 0, 3600, 4000, 12000, 32000, 400000},
     monthly_psh_dict |-> SolarGhiMappings \cup NasaPowerMappings,
     shading_factor |-> {-100, 0, 2, 6, 20, 100},
     tilt_deg |-> {-90, 0, 21, 60, 500},
     lat |-> {-900, 0, 213, 900}]

\* the call of line 317 with the widgets' defaults and the fallback mapping
ScoreDefault ==
    [roof_area_m2 |-> 32000, monthly_psh_dict |-> PyDict(FallbackMonthly),
     shading_factor |-> 2, tilt_deg |-> 21, lat |-> 213]

CallSuitabilityScore ==
    /\ \E a \in (IF call.fn = "suitability_score"
                 THEN OneChange(call.args, ScoreDom) ELSE {ScoreDefault}) :
          call' = [fn |-> "suitability_score", args |-> a,
                   ret |-> SuitabilityScore(a.roof_area_m2, a.monthly_psh_dict,
                                            a.shading_factor, a.tilt_deg, a.lat)]
    /\ UNCHANGED <<nasa_cache, ui, pc, layout, forecast>>

ForecastDom ==
    [system_kw |-> {0, 80, 720},
     monthly_psh |-> SolarGhiMappings \cup NasaPowerMappings,
     performance_ratio |-> {12, 15, 18},
     shading_factor |-> {0, 2, 16},
     cost_per_kw |-> {10000, 55000},
     tariff |-> {4, 16}]

\* the section on the defaults' 7.2 kW and the fallback mapping
ForecastDefault ==
    [system_kw |-> 720, monthly_psh |-> PyDict(FallbackMonthly), performance_ratio |-> 15,
     shading_factor |-> 2, cost_per_kw |-> 55000, tariff |-> 16]

CallMonthlyForecast ==
    /\ \E a \in (IF call.fn = "monthly_forecast"
                 THEN OneChange(call.args, ForecastDom) ELSE {ForecastDefault}) :
          call' = [fn |-> "monthly_forecast", args |-> a,
                   ret |-> ForecastSection(a.system_kw, a.monthly_psh, a.performance_ratio,
                                           a.shading_factor, a.cost_per_kw, a.tariff)]
    /\ UNCHANGED <<nasa_cache, ui, pc, layout, forecast>>

FnInit ==
    /\ call = NoCall
    /\ nasa_cache = ColdCache
    /\ ui = DefaultUi
    /\ pc = "idle"
    /\ layout = NoLayout
    /\ forecast = ForecastError("none")

FnNext == CallComputePanelsFit \/ CallSuitabilityScore \/ CallMonthlyForecast

FnSpec == FnInit /\ [][FnNext]_vars

---------------------------------------------------------------------------
(* NetSpec: calls of the two solar-resource providers *)

\* no GET is sent when st.cache_data answers
NotRequested == Response("not_requested", <<>>)

\* lines 21-49: fetch_nasa_power_monthly behind st.cache_data, which keeps the
\* return value of the first call per (lat, lon), None included
CallFetchNasaPowerMonthly ==
    /\ \E loc \in Locations, resp \in NasaResponses :
          IF nasa_cache[loc].hit
          THEN /\ call' = [fn |-> "fetch_nasa_power_monthly",
                           args |-> [loc |-> loc, nasa |-> NotRequested,
                                     pvgis |-> NotRequested],
                           ret |-> nasa_cache[loc].value]
               /\ UNCHANGED nasa_cache
          ELSE /\ call' = [fn |-> "fetch_nasa_power_monthly",
                           args |-> [loc |-> loc, nasa |-> resp, pvgis |-> NotRequested],
                           ret |-> FetchNasaPowerMonthlyBody(resp)]
               /\ nasa_cache' = [nasa_cache EXCEPT ![loc] =
                                    [hit |-> TRUE, value |-> FetchNasaPowerMonthlyBody(resp)]]
    /\ UNCHANGED <<ui, pc, layout, forecast>>

\* lines 196-227: fetch_solar_ghi; ret is the ghi_monthly it returns
CallFetchSolarGhi ==
    /\ \E loc \in Locations, nasa \in NasaResponses, pvgis \in PvgisResponses :
          call' = [fn |-> "fetch_solar_ghi",
                   args |-> [loc |-> loc, nasa |-> nasa,
                             pvgis |-> IF nasa.kind = "ok" THEN NotRequested ELSE pvgis],
                   ret |-> FetchSolarGhi(nasa, pvgis).ghi_monthly]
    /\ UNCHANGED <<nasa_cache, ui, pc, layout, forecast>>

NetNext == CallFetchNasaPowerMonthly \/ CallFetchSolarGhi

NetSpec == FnInit /\ [][NetNext]_vars

---------------------------------------------------------------------------
(* Spec: runs of the script, top to bottom, one after each widget change *)

UiDom ==
    [roof_w |-> {60, 200}, roof_h |-> {60, 160}, clearance |-> {0, 8, 30},
     panel_w |-> {16, 22}, panel_h |-> {24, 35}, panel_watt |-> {200, 400},
     orientation |-> {"Portrait", "Landscape"}, performance_ratio |-> {15},
     shading_factor |-> {2, 16}, cost_per_kw |-> {55000}, tariff |-> {16}]

\* line 235: system_kw = round((count * panel_watt) / 1000.0, 2)
SystemKw(count, panel_watt) == RoundHalfEven(count * panel_watt, 10)

\* lines 233-235
PanelLayout ==
    /\ pc = "layout"
    /\ LET fit == ComputePanelsFit(ui.roof_w, ui.roof_h, ui.panel_w, ui.panel_h,
                                   ui.clearance, ui.orientation)
       IN  /\ layout' = [err |-> fit.err, count |-> fit.count, rows |-> fit.rows,
                         cols |-> fit.cols, system_kw |-> SystemKw(fit.count, ui.panel_watt)]
           /\ pc' = IF fit.err = "none" THEN "forecast" ELSE "crashed"
    /\ UNCHANGED <<call, nasa_cache, ui, forecast>>

\* what the name monthly_psh is bound to when line 279 reads it: no statement
\* of app.py assigns it, and fetch_solar_ghi and fetch_nasa_power_monthly are
\* defined but never called
MonthlyPsh == Unbound

\* lines 278-296; an exception ends the run
MonthlyForecast ==
    /\ pc = "forecast"
    /\ forecast' = ForecastSection(layout.system_kw, MonthlyPsh, ui.performance_ratio,
                                   ui.shading_factor, ui.cost_per_kw, ui.tariff)
    /\ pc' = IF forecast'.err = "none" THEN "suitability" ELSE "crashed"
    /\ UNCHANGED <<call, nasa_cache, ui, layout>>

\* a widget gets a new value: Streamlit stops the run and starts the script over
Rerun ==
    /\ \E u \in OneChange(ui, UiDom) : u # ui /\ ui' = u
    /\ pc' = "layout"
    /\ layout' = NoLayout
    /\ forecast' = ForecastError("none")
    /\ UNCHANGED <<call, nasa_cache>>

Init ==
    /\ call = NoCall
    /\ nasa_cache = ColdCache
    /\ ui = DefaultUi
    /\ pc = "layout"
    /\ layout = NoLayout
    /\ forecast = ForecastError("none")

Next == PanelLayout \/ MonthlyForecast \/ Rerun

Spec == Init /\ [][Next]_vars

---------------------------------------------------------------------------
(* Properties of compute_panels_fit, checked under FnSpec *)

IsFitCall == call.fn = "compute_panels_fit"

\* a call within the claims' domain: panel dimensions > 0 (clearance >= 0 in
\* every call FnSpec makes)
IsProperFitCall ==
    /\ IsFitCall
    /\ call.args.panel_w > 0 /\ call.args.panel_h > 0 /\ call.args.clearance >= 0

\* the panel dimension along the roof's width, and along its height
AlongWidth(a) == IF a.orientation = "Landscape" THEN a.panel_h ELSE a.panel_w
AlongHeight(a) == IF a.orientation = "Landscape" THEN a.panel_w ELSE a.panel_h

\* max(surface - 2*clearance, 0), written out
Available(surface, clearance) ==
    IF surface - 2 * clearance > 0 THEN surface - 2 * clearance ELSE 0

\* n = max(floor(x / y), 0) for y > 0, without a division
IsFloorOrZero(n, x, y) ==
    /\ n >= 0
    /\ x >= 0 => (n * y <= x /\ x < (n + 1) * y)
    /\ x < 0 => n = 0

\* C1: for panel dimensions > 0 and clearance >= 0, in either orientation, rows
\* and cols each equal max(floor((available + clearance) / (panel_dim + clearance)), 0)
\* with available = max(surface_dim - 2*clearance, 0), the panel's dimensions
\* swapped for Landscape; roof 10 x 8 m, panel 1.1 x 1.75 m Portrait, clearance
\* 0.4 m gives cols 6, rows 3, count 18.
C1_PanelsFitFormula ==
    IsProperFitCall =>
        LET a == call.args
            r == call.ret
            c == a.clearance
        IN  /\ r.err = "none"
            /\ IsFloorOrZero(r.cols, Available(a.roof_w, c) + c, AlongWidth(a) + c)
            /\ IsFloorOrZero(r.rows, Available(a.roof_h, c) + c, AlongHeight(a) + c)
            /\ (a = FitDefault => r.cols = 6 /\ r.rows = 3 /\ r.count = 18)
            /\ (a = [FitDefault EXCEPT !.orientation = "Landscape"]
                   => r.cols = 4 /\ r.rows = 5 /\ r.count = 20)

\* the spec's scenario has been computed
C1_Witness ==
    /\ IsProperFitCall
    /\ call.args = FitDefault
    /\ call.ret = [err |-> "none", count |-> 18, rows |-> 3, cols |-> 6]

\* C2: raising the clearance, everything else fixed and the panel dimensions
\* > 0, never raises the count: two successive calls that differ in the
\* clearance alone, the second no smaller, return counts the second no larger.
C2_ClearanceMonotone ==
    [][ ( /\ IsProperFitCall
          /\ call'.fn = "compute_panels_fit"
          /\ call'.args = [call.args EXCEPT !.clearance = call'.args.clearance]
          /\ call'.args.clearance >= call.args.clearance )
        => call'.ret.count <= call.ret.count ]_vars

\* a call at a raised clearance whose count is below the one of clearance 0
C2_Witness ==
    /\ IsProperFitCall
    /\ call.args.clearance = MaxClearance
    /\ call.ret.count > 0
    /\ call.ret.count < ComputePanelsFit(call.args.roof_w, call.args.roof_h,
                                         call.args.panel_w, call.args.panel_h, 0,
                                         call.args.orientation).count

\* C9: for clearance >= 0 and panel dimensions > 0 the result has
\* count = rows * cols, rows >= 0 and cols >= 0.
C9_CountIsRowsTimesCols ==
    IsProperFitCall =>
        /\ call.ret.err = "none"
        /\ call.ret.count = call.ret.rows * call.ret.cols
        /\ call.ret.rows >= 0
        /\ call.ret.cols >= 0

C9_Witness ==
    /\ IsProperFitCall
    /\ call.ret.rows = 2
    /\ call.ret.cols = 3
    /\ call.ret.count = 6

\* the panels of one axis: n is the largest count that fits, and every panel
\* of the preview lies inside the edge-clearance box [c, surface - c]
AxisFitsAndIsMaximal(n, surface, p, c) ==
    /\ n >= 0
    /\ n * p + (n - 1) * c <= Available(surface, c)
    /\ (n + 1) * p + n * c > Available(surface, c)
    /\ \A i \in 0..(n - 1) :
          /\ PanelOffset(i, p, c) >= c
          /\ PanelOffset(i, p, c) + p <= surface - c

\* C10: for clearance >= 0 and panel dimensions > 0 the count per axis is the
\* largest N >= 0 with N*panel_dim + (N-1)*clearance <= available; every panel
\* of the layout grid, at offset clearance + i*(panel_dim + clearance), i < N,
\* lies inside [clearance, surface_dim - clearance], and N+1 panels do not fit.
C10_AxisCountMaximal ==
    IsProperFitCall =>
        /\ call.ret.err = "none"
        /\ AxisFitsAndIsMaximal(call.ret.cols, call.args.roof_w, AlongWidth(call.args),
                                call.args.clearance)
        /\ AxisFitsAndIsMaximal(call.ret.rows, call.args.roof_h, AlongHeight(call.args),
                                call.args.clearance)

\* two panels and a gap fill the available width exactly
C10_Witness ==
    /\ IsProperFitCall
    /\ call.args.clearance > 0
    /\ call.ret.cols = 2
    /\ call.ret.rows >= 1
    /\ 2 * AlongWidth(call.args) + call.args.clearance
          = call.args.roof_w - 2 * call.args.clearance

---------------------------------------------------------------------------
(* Properties of the forecast section, checked under FnSpec *)

IsForecastCall == call.fn = "monthly_forecast"

\* the section ran to its last line, 296
ReachedPayback == IsForecastCall /\ call.ret.err \in {"none", "ZeroDivisionError"}

MaxInstallCost == 6
MaxSavings == 4

\* C3 as stated: the annual energy the forecast produces, and the savings and
\* payback consume, is the exact sum of the monthly energies, unrounded.
C3_AnnualIsExactSum ==
    (IsForecastCall /\ call.ret.err = "none") =>
        call.ret.annual_energy * EnergyPerTenthKwh = SumSeq(call.ret.monthly_energy)

\* C5 as stated: whatever path of fetch_solar_ghi produced the mapping (NASA,
\* PVGIS, fallback), its keys are the twelve months in the key scheme of
\* days_in_months, so the forecast loop finds a day count for every key and
\* produces twelve monthly energies.
C5_KeysNormalized ==
    (IsForecastCall /\ call.args.monthly_psh \in SolarGhiMappings) =>
        /\ DictKeys(call.args.monthly_psh.items) = DictKeys(DaysInMonths(DefaultYear))
        /\ call.ret.err = "none"
        /\ Len(call.ret.monthly_energy) = 12

\* C6: the payback never divides by zero: for install_cost >= 0 and
\* annual_savings >= 0 it is install_cost / max(annual_savings, 1), finite, and
\* for annual_savings = 0 it is install_cost / 1 (396000 gives 396000).
C6_PaybackFinite ==
    /\ ReachedPayback =>
          LET r == call.ret
              d == IF r.annual_savings >= 1 THEN r.annual_savings ELSE 1
          IN  /\ r.err = "none"
              /\ r.install_cost >= 0 /\ r.annual_savings >= 0
              \* payback_years is install_cost / d to the nearest 0.1
              /\ 2 * (r.payback_years * d - 10 * r.install_cost) <= d
              /\ 2 * (10 * r.install_cost - r.payback_years * d) <= d
              /\ r.annual_savings = 0 => r.payback_years = 10 * r.install_cost
    /\ \A ic \in 0..MaxInstallCost, sv \in 0..MaxSavings :
          /\ PaybackYears(ic, sv).err = "none"
          /\ sv = 0 => PaybackYears(ic, sv).val = 10 * ic
    /\ PaybackYears(396000, 0) = [err |-> "none", val |-> 3960000]

\* the spec's scenario: 7.2 kW at 55000 per kW and no energy, so no savings
C6_Witness ==
    /\ ReachedPayback
    /\ call.ret.install_cost = 396000
    /\ call.ret.annual_savings = 0
    /\ call.ret.payback_years = 3960000

---------------------------------------------------------------------------
(* Property of suitability_score, checked under FnSpec *)

IsScoreCall == call.fn = "suitability_score"

\* C7: suitability_score is in [0, 100] for every roof area, every resource
\* mapping (an empty or missing one too) and every shading_factor, tilt_deg
\* and latitude, out-of-range ones included.
C7_ScoreInRange ==
    IsScoreCall => (0 <= call.ret /\ call.ret <= 100 * 10)

\* no mapping, shading 5.0, tilt 500 degrees
C7_Witness ==
    /\ IsScoreCall
    /\ call.args.monthly_psh_dict.kind = "None"
    /\ call.args.shading_factor > 20
    /\ call.args.tilt_deg > 90
    /\ call.ret > 0

---------------------------------------------------------------------------
(* Property of the providers, checked under NetSpec *)

IsFetchCall == call.fn \in {"fetch_nasa_power_monthly", "fetch_solar_ghi"}

\* every GET the call sent failed
AllSourcesFailed ==
    /\ call.args.nasa.kind \notin {"ok", "not_requested"}
    /\ call.args.pvgis.kind \notin {"ok"}

\* C4 as stated: whatever fails (exception, timeout, malformed payload), the
\* provider hands over a mapping of exactly 12 monthly values, never None or
\* a partial one, and all of them 5.0 when every source failed.
C4_AlwaysTwelveValues ==
    IsFetchCall =>
        /\ call.ret.kind = "dict"
        /\ Len(call.ret.items) = 12
        /\ AllSourcesFailed =>
              \A i \in DOMAIN call.ret.items : call.ret.items[i][2] = FallbackPsh

---------------------------------------------------------------------------
(* Property of a run of the script, checked under Spec *)

\* the run is past the forecast section
ForecastOver == pc \in {"suitability", "crashed"} /\ layout.err = "none"

\* a roof dimension no larger than the two edge clearances
NoUsableSurface == ui.roof_w <= 2 * ui.clearance \/ ui.roof_h <= 2 * ui.clearance

\* C8 as stated: degenerate inputs give zero-valued results, not an error:
\* 0 panels, 0 kW, 0 kWh for every month, annual energy 0, a finite payback.
C8_DegenerateGivesZeros ==
    (ForecastOver /\ NoUsableSurface) =>
        /\ layout.count = 0
        /\ layout.system_kw = 0
        /\ forecast.err = "none"
        /\ \A i \in DOMAIN forecast.monthly_energy : forecast.monthly_energy[i] = 0
        /\ forecast.annual_energy = 0

====
